---- MODULE Spec2Model ----
(***************************************************************************)
(* Amidakuji generator: generate_amidakuji_data and _simulate_amidakuji of *)
(* src/amidakuji_generator/core.py.                                        *)
(*                                                                         *)
(* Spec     one call of generate_amidakuji_data, statement by statement,   *)
(*          followed by the simulation that render_to_pdf runs on the      *)
(*          returned diagram and the end labels it draws from it.          *)
(* SimSpec  the same simulation and labels for an arbitrary valid diagram. *)
(*                                                                         *)
(* random.shuffle is modelled by revealing the shuffled list one element   *)
(* at a time: the list variable holds the elements the for loop has not    *)
(* reached yet, and each iteration takes any one of them. When a loop ends  *)
(* its iterator is dropped (the variable becomes empty).                   *)
(***************************************************************************)
EXTENDS Integers, Sequences, FiniteSets

\* ------------------------------------------------------------------ bounds

\* largest vertical_lines argument tried
MaxLines == 4
\* largest min_horizontal_bars / max_horizontal_bars argument tried
MaxBars == 3
\* largest placement grid tried, in candidate cells
MaxCells == 12
\* y levels 0..SimRows-1 of the diagrams handed to the simulator alone
SimRows == 3
\* longest horizontal_bars list handed to the simulator alone
SimMaxBars == 3

\* margin_ratio is a float; the model carries it as num/MarginDen, or NaN
MarginDen == 40

NaN == [nan |-> TRUE, num |-> 0]

Ratio(k) == [nan |-> FALSE, num |-> k]

\* the default margin_ratio = 0.1
DefaultMarginRatio == Ratio(4)

\* -0.125, 0, 0.1, 0.375, 0.5 and NaN
MarginRatios == {Ratio(-5), Ratio(0), DefaultMarginRatio, Ratio(15), Ratio(20), NaN}

VARIABLES
    pc,                  \* position in generate_amidakuji_data
    vertical_lines,      \* argument
    min_horizontal_bars, \* argument
    max_horizontal_bars, \* argument
    margin_ratio,        \* argument
    rng_calls,           \* calls made on the random module so far
    total_bars,
    height,
    num_columns,
    margin_levels,
    selected_positions,
    horizontal_bars,
    coverage_positions,  \* iterator of the coverage loop: cells not yet visited
    line_covered,
    remaining_positions, \* iterator of the fill loop: cells not yet visited
    missing_lines,
    outcome,             \* "running", "returned" or "raised"
    error,               \* the ValueError message when raised
    amidakuji_data,      \* the returned dictionary
    result_mapping,      \* what _simulate_amidakuji returned for it
    end_labels           \* the letters render_to_pdf drew under the lines

vars == <<pc, vertical_lines, min_horizontal_bars, max_horizontal_bars,
          margin_ratio, rng_calls, total_bars, height, num_columns,
          margin_levels, selected_positions, horizontal_bars,
          coverage_positions, line_covered, remaining_positions,
          missing_lines, outcome, error, amidakuji_data, result_mapping,
          end_labels>>

\* ----------------------------------------------------------------- values

NoData == [vertical_lines |-> 0, horizontal_bars_total |-> 0, horizontal_bars |-> <<>>]

NoMapping == <<>>

NoLabels == <<>>

Bar(y, col) == [y_level |-> y, left_line_index |-> col]

MsgVerticalLines == "Number of vertical lines must be 2 or greater"

MsgMinNegative == "Minimum number of horizontal bars must be 0 or greater"

MsgMaxNegative == "Maximum number of horizontal bars must be 0 or greater"

MsgMinGtMax == "Minimum must be less than or equal to maximum"

MsgMarginRatio == "Margin ratio must be between 0 and 0.5"

MsgNaNToInt == "cannot convert float NaN to integer"

MsgNotConnected == "Cannot generate valid amidakuji: not enough bars to connect all vertical lines."

InvalidParameterMessages ==
    {MsgVerticalLines, MsgMinNegative, MsgMaxNegative, MsgMinGtMax, MsgMarginRatio}

\* ------------------------------------------------- generate_amidakuji_data

\* margin_ratio < 0 or margin_ratio >= 0.5; every comparison with NaN is False
MarginRatioRejected(r) ==
    /\ ~r.nan
    /\ (r.num < 0 \/ 2 * r.num >= MarginDen)

\* the message of the first failing check, "" when all pass
ValidationError(n, bmin, bmax, r) ==
    IF n < 2 THEN MsgVerticalLines
    ELSE IF bmin < 0 THEN MsgMinNegative
    ELSE IF bmax < 0 THEN MsgMaxNegative
    ELSE IF bmin > bmax THEN MsgMinGtMax
    ELSE IF MarginRatioRejected(r) THEN MsgMarginRatio
    ELSE ""

\* height = max(total_bars * 2, 6) in place of the conditional
GridHeight_Floor6(t) == IF t * 2 >= 6 THEN t * 2 ELSE 6

\* height = total_bars * 2 if total_bars > 0 else 6
GridHeight(t) == IF t > 0 THEN t * 2 ELSE 6

Max2(a, b) == IF a >= b THEN a ELSE b

\* int(height * margin_ratio) without the floor of one row
MarginLevels_NoFloor(h, r) == (h * r.num) \div MarginDen

\* max(1, int(height * margin_ratio)), for a ratio that passed validation
MarginLevels(h, r) == Max2(1, (h * r.num) \div MarginDen)

\* the row range one short: range(margin_levels, height - margin_levels - 1)
CandidateCells_ShortRange(h, m, cols) ==
    {<<y, col>> : y \in m .. (h - m - 2), col \in 0 .. (cols - 1)}

\* the cells both passes enumerate: range(margin_levels, height - margin_levels)
\* crossed with range(num_columns)
CandidateCells(h, m, cols) ==
    {<<y, col>> : y \in m .. (h - m - 1), col \in 0 .. (cols - 1)}

\* the conflict test of the coverage pass
CoverageConflictFree(sel, y, col) ==
    /\ <<y, col>> \notin sel
    /\ <<y, col - 1>> \notin sel
    /\ <<y, col + 1>> \notin sel

\* the fill pass's test without its right-hand neighbour
FillConflictFree_NoRight(sel, y, col) ==
    /\ <<y, col>> \notin sel
    /\ <<y, col - 1>> \notin sel

\* the conflict test of the fill pass
FillConflictFree(sel, y, col) ==
    /\ <<y, col>> \notin sel
    /\ <<y, col - 1>> \notin sel
    /\ <<y, col + 1>> \notin sel

\* all(flags)
All(flags) == \A i \in DOMAIN flags : flags[i]

\* line_has_bar after the loop over horizontal_bars
LineHasBar(bars, n) ==
    [i \in 0 .. (n - 1) |->
        \E k \in 1 .. Len(bars) :
            \/ bars[k].left_line_index = i
            \/ (bars[k].left_line_index + 1 = i /\ bars[k].left_line_index + 1 < n)]

\* "if not any(line_has_bar)" in place of "if not all(line_has_bar)"
ValidationFails_NotAny(lhb) == ~(\E i \in DOMAIN lhb : lhb[i])

\* if not all(line_has_bar)
ValidationFails(lhb) == ~All(lhb)

\* the comprehension with its filter inverted: "if has_bar"
MissingLines_HasBar(lhb, n) ==
    SelectSeq([k \in 1 .. n |-> k], LAMBDA k : lhb[k - 1])

\* [i + 1 for i, has_bar in enumerate(line_has_bar) if not has_bar]
MissingLines(lhb, n) ==
    SelectSeq([k \in 1 .. n |-> k], LAMBDA k : ~lhb[k - 1])

\* ---------------------------------------------------- _simulate_amidakuji

RECURSIVE InsertByYLevel(_, _)
InsertByYLevel(s, b) ==
    IF s = <<>> THEN <<b>>
    ELSE IF s[Len(s)].y_level <= b.y_level THEN Append(s, b)
    ELSE Append(InsertByYLevel(SubSeq(s, 1, Len(s) - 1), b), s[Len(s)])

\* the bars taken in list order, the sort forgotten
Unsorted(bars) == bars

\* sorted(horizontal_bars, key=lambda x: x["y_level"]): a stable sort
RECURSIVE SortedByYLevel(_)
SortedByYLevel(bars) ==
    IF bars = <<>> THEN <<>>
    ELSE InsertByYLevel(SortedByYLevel(SubSeq(bars, 1, Len(bars) - 1)), bars[Len(bars)])

\* an assignment in place of the swap: positions[left_index] = positions[left_index + 1]
SwapAt_Overwrite(positions, left_index, n) ==
    IF left_index < n - 1
    THEN [positions EXCEPT ![left_index] = positions[left_index + 1]]
    ELSE positions

\* the guarded swap of positions[left_index] and positions[left_index + 1];
\* positions is indexed from 0 as the Python list is
SwapAt(positions, left_index, n) ==
    IF left_index < n - 1
    THEN [positions EXCEPT ![left_index] = positions[left_index + 1],
                           ![left_index + 1] = positions[left_index]]
    ELSE positions

RECURSIVE ApplyBars(_, _, _, _)
ApplyBars(positions, sorted_bars, k, n) ==
    IF k > Len(sorted_bars) THEN positions
    ELSE ApplyBars(SwapAt(positions, sorted_bars[k].left_line_index, n),
                   sorted_bars, k + 1, n)

simulate_amidakuji(data) ==
    LET n == data.vertical_lines
        sorted_bars == SortedByYLevel(data.horizontal_bars)
    IN  ApplyBars([i \in 0 .. (n - 1) |-> i], sorted_bars, 1, n)

\* ------------------------------------------------------------------ Init

\* the candidate cells of the largest grid a call with these arguments can
\* build (total_bars = bmax, margin_levels = 1)
LargestGrid(n, bmax) ==
    IF n >= 2 /\ bmax >= 1
    THEN Cardinality(CandidateCells(GridHeight(bmax), 1, n - 1))
    ELSE 0

Init ==
    /\ pc = "validate"
    /\ vertical_lines \in 1 .. MaxLines
    /\ min_horizontal_bars \in -1 .. MaxBars
    /\ max_horizontal_bars \in -1 .. MaxBars
    /\ LargestGrid(vertical_lines, max_horizontal_bars) <= MaxCells
    /\ margin_ratio \in MarginRatios
    /\ rng_calls = 0
    /\ total_bars = 0
    /\ height = 0
    /\ num_columns = 0
    /\ margin_levels = 0
    /\ selected_positions = {}
    /\ horizontal_bars = <<>>
    /\ coverage_positions = {}
    /\ line_covered = <<>>
    /\ remaining_positions = {}
    /\ missing_lines = <<>>
    /\ outcome = "running"
    /\ error = ""
    /\ amidakuji_data = NoData
    /\ result_mapping = NoMapping
    /\ end_labels = NoLabels

\* --------------------------------------------------------------- actions

\* lines 39-48
Validate ==
    /\ pc = "validate"
    /\ LET e == ValidationError(vertical_lines, min_horizontal_bars,
                                max_horizontal_bars, margin_ratio)
       IN  IF e # ""
           THEN /\ pc' = "done"
                /\ outcome' = "raised"
                /\ error' = e
           ELSE /\ pc' = "draw"
                /\ UNCHANGED <<outcome, error>>
    /\ UNCHANGED <<vertical_lines, min_horizontal_bars, max_horizontal_bars,
                   margin_ratio, rng_calls, total_bars, height, num_columns,
                   margin_levels, selected_positions, horizontal_bars,
                   coverage_positions, line_covered, remaining_positions,
                   missing_lines, amidakuji_data, result_mapping, end_labels>>

\* line 51: random.randint(min_horizontal_bars, max_horizontal_bars)
Draw ==
    /\ pc = "draw"
    /\ \E t \in min_horizontal_bars .. max_horizontal_bars : total_bars' = t
    /\ rng_calls' = rng_calls + 1
    /\ pc' = "grid"
    /\ UNCHANGED <<vertical_lines, min_horizontal_bars, max_horizontal_bars,
                   margin_ratio, height, num_columns, margin_levels,
                   selected_positions, horizontal_bars, coverage_positions,
                   line_covered, remaining_positions, missing_lines, outcome,
                   error, amidakuji_data, result_mapping, end_labels>>

\* lines 54-62; int() of a NaN raises ValueError
Grid ==
    /\ pc = "grid"
    /\ height' = GridHeight(total_bars)
    /\ num_columns' = vertical_lines - 1
    /\ IF margin_ratio.nan
       THEN /\ pc' = "done"
            /\ outcome' = "raised"
            /\ error' = MsgNaNToInt
            /\ UNCHANGED <<margin_levels, selected_positions, horizontal_bars>>
       ELSE /\ margin_levels' = MarginLevels(GridHeight(total_bars), margin_ratio)
            /\ selected_positions' = {}
            /\ horizontal_bars' = <<>>
            /\ pc' = "coverage_if"
            /\ UNCHANGED <<outcome, error>>
    /\ UNCHANGED <<vertical_lines, min_horizontal_bars, max_horizontal_bars,
                   margin_ratio, rng_calls, total_bars, coverage_positions,
                   line_covered, remaining_positions, missing_lines,
                   amidakuji_data, result_mapping, end_labels>>

\* lines 66-76: the coverage pass is entered, its candidates shuffled
CoverageStart ==
    /\ pc = "coverage_if"
    /\ total_bars >= num_columns
    /\ coverage_positions' = CandidateCells(height, margin_levels, num_columns)
    /\ rng_calls' = rng_calls + 1
    /\ line_covered' = [i \in 0 .. (vertical_lines - 1) |-> FALSE]
    /\ pc' = "coverage"
    /\ UNCHANGED <<vertical_lines, min_horizontal_bars, max_horizontal_bars,
                   margin_ratio, total_bars, height, num_columns, margin_levels,
                   selected_positions, horizontal_bars, remaining_positions,
                   missing_lines, outcome, error, amidakuji_data, result_mapping, end_labels>>

\* line 66, condition false
CoverageSkip ==
    /\ pc = "coverage_if"
    /\ ~(total_bars >= num_columns)
    /\ pc' = "fill_if"
    /\ UNCHANGED <<vertical_lines, min_horizontal_bars, max_horizontal_bars,
                   margin_ratio, rng_calls, total_bars, height, num_columns,
                   margin_levels, selected_positions, horizontal_bars,
                   coverage_positions, line_covered, remaining_positions,
                   missing_lines, outcome, error, amidakuji_data, result_mapping, end_labels>>

\* lines 79-100: the for loop ends (list exhausted, or break at line 81)
CoverageEnd ==
    /\ pc = "coverage"
    /\ \/ coverage_positions = {}
       \/ Len(horizontal_bars) >= total_bars
    /\ coverage_positions' = {}
    /\ pc' = "fill_if"
    /\ UNCHANGED <<vertical_lines, min_horizontal_bars, max_horizontal_bars,
                   margin_ratio, rng_calls, total_bars, height, num_columns,
                   margin_levels, selected_positions, horizontal_bars,
                   line_covered, remaining_positions,
                   missing_lines, outcome, error, amidakuji_data, result_mapping, end_labels>>

\* lines 79-100: one iteration of the coverage loop
CoverageStep ==
    /\ pc = "coverage"
    /\ Len(horizontal_bars) < total_bars
    /\ \E pos \in coverage_positions :
        LET y == pos[1]
            col == pos[2]
            left_covered == line_covered[col]
            right_covered == IF col + 1 < vertical_lines
                             THEN line_covered[col + 1] ELSE TRUE
            covered == [line_covered EXCEPT ![col] = TRUE, ![col + 1] = TRUE]
        IN  IF (~left_covered \/ ~right_covered)
               /\ CoverageConflictFree(selected_positions, y, col)
            THEN /\ horizontal_bars' = Append(horizontal_bars, Bar(y, col))
                 /\ selected_positions' = selected_positions \cup {pos}
                 /\ line_covered' = covered
                 /\ IF All(covered)
                    THEN /\ pc' = "fill_if"
                         /\ coverage_positions' = {}
                    ELSE /\ pc' = "coverage"
                         /\ coverage_positions' = coverage_positions \ {pos}
            ELSE /\ coverage_positions' = coverage_positions \ {pos}
                 /\ UNCHANGED <<horizontal_bars, selected_positions, line_covered, pc>>
    /\ UNCHANGED <<vertical_lines, min_horizontal_bars, max_horizontal_bars,
                   margin_ratio, rng_calls, total_bars, height, num_columns,
                   margin_levels, remaining_positions, missing_lines, outcome,
                   error, amidakuji_data, result_mapping, end_labels>>

\* lines 103-110: the fill pass is entered, its candidates shuffled
FillStart ==
    /\ pc = "fill_if"
    /\ Len(horizontal_bars) < total_bars
    /\ remaining_positions' =
           CandidateCells(height, margin_levels, num_columns) \ selected_positions
    /\ rng_calls' = rng_calls + 1
    /\ pc' = "fill"
    /\ UNCHANGED <<vertical_lines, min_horizontal_bars, max_horizontal_bars,
                   margin_ratio, total_bars, height, num_columns, margin_levels,
                   selected_positions, horizontal_bars, coverage_positions,
                   line_covered, missing_lines, outcome, error, amidakuji_data,
                   result_mapping, end_labels>>

\* line 103, condition false
FillSkip ==
    /\ pc = "fill_if"
    /\ ~(Len(horizontal_bars) < total_bars)
    /\ pc' = "final"
    /\ UNCHANGED <<vertical_lines, min_horizontal_bars, max_horizontal_bars,
                   margin_ratio, rng_calls, total_bars, height, num_columns,
                   margin_levels, selected_positions, horizontal_bars,
                   coverage_positions, line_covered, remaining_positions,
                   missing_lines, outcome, error, amidakuji_data, result_mapping, end_labels>>

\* lines 112-123: the for loop ends (list exhausted, or break at line 114)
FillEnd ==
    /\ pc = "fill"
    /\ \/ remaining_positions = {}
       \/ Len(horizontal_bars) >= total_bars
    /\ remaining_positions' = {}
    /\ pc' = "final"
    /\ UNCHANGED <<vertical_lines, min_horizontal_bars, max_horizontal_bars,
                   margin_ratio, rng_calls, total_bars, height, num_columns,
                   margin_levels, selected_positions, horizontal_bars,
                   coverage_positions, line_covered,
                   missing_lines, outcome, error, amidakuji_data, result_mapping, end_labels>>

\* lines 112-123: one iteration of the fill loop
FillStep ==
    /\ pc = "fill"
    /\ Len(horizontal_bars) < total_bars
    /\ \E pos \in remaining_positions :
        LET y == pos[1]
            col == pos[2]
        IN  /\ remaining_positions' = remaining_positions \ {pos}
            /\ IF FillConflictFree(selected_positions, y, col)
               THEN /\ horizontal_bars' = Append(horizontal_bars, Bar(y, col))
                    /\ selected_positions' = selected_positions \cup {pos}
               ELSE UNCHANGED <<horizontal_bars, selected_positions>>
    /\ pc' = "fill"
    /\ UNCHANGED <<vertical_lines, min_horizontal_bars, max_horizontal_bars,
                   margin_ratio, rng_calls, total_bars, height, num_columns,
                   margin_levels, coverage_positions, line_covered,
                   missing_lines, outcome, error, amidakuji_data, result_mapping, end_labels>>

\* lines 126-142: the final validation, then raise or return
FinalCheck ==
    /\ pc = "final"
    /\ LET line_has_bar == LineHasBar(horizontal_bars, vertical_lines)
       IN  IF ValidationFails(line_has_bar)
           THEN /\ missing_lines' = MissingLines(line_has_bar, vertical_lines)
                /\ outcome' = "raised"
                /\ error' = MsgNotConnected
                /\ UNCHANGED amidakuji_data
           ELSE /\ outcome' = "returned"
                /\ amidakuji_data' =
                       [vertical_lines |-> vertical_lines,
                        horizontal_bars_total |-> Len(horizontal_bars),
                        horizontal_bars |-> horizontal_bars]
                /\ UNCHANGED <<missing_lines, error>>
    /\ pc' = "done"
    /\ UNCHANGED <<vertical_lines, min_horizontal_bars, max_horizontal_bars,
                   margin_ratio, rng_calls, total_bars, height, num_columns,
                   margin_levels, selected_positions, horizontal_bars,
                   coverage_positions, line_covered, remaining_positions,
                   result_mapping, end_labels>>

\* render_to_pdf, line 204: result_mapping = _simulate_amidakuji(amidakuji_data)
Simulate ==
    /\ pc = "done"
    /\ outcome = "returned"
    /\ result_mapping = NoMapping
    /\ result_mapping' = simulate_amidakuji(amidakuji_data)
    /\ UNCHANGED <<pc, vertical_lines, min_horizontal_bars, max_horizontal_bars,
                   margin_ratio, rng_calls, total_bars, height, num_columns,
                   margin_levels, selected_positions, horizontal_bars,
                   coverage_positions, line_covered, remaining_positions,
                   missing_lines, outcome, error, amidakuji_data, end_labels>>

\* chr(ord("A") + k)
ResultChar(k) ==
    <<"A", "B", "C", "D", "E", "F", "G", "H", "I", "J", "K", "L", "M",
      "N", "O", "P", "Q", "R", "S", "T", "U", "V", "W", "X", "Y", "Z">>[k + 1]

\* the label of bottom column i taken from i itself, not from the mapping
EndLabel_OwnIndex(mapping, i) == ResultChar(i)

\* result_char = chr(ord("A") + result_mapping[i]), drawn under line i
EndLabel(mapping, i) == ResultChar(mapping[i])

\* text = str(i + 1), drawn above line i
StartLabel(i) == i + 1

\* render_to_pdf, lines 207-212: the end labels are drawn
DrawEndLabels ==
    /\ pc = "done"
    /\ outcome = "returned"
    /\ result_mapping # NoMapping
    /\ end_labels = NoLabels
    /\ end_labels' = [i \in 0 .. (amidakuji_data.vertical_lines - 1) |->
                         EndLabel(result_mapping, i)]
    /\ UNCHANGED <<pc, vertical_lines, min_horizontal_bars, max_horizontal_bars,
                   margin_ratio, rng_calls, total_bars, height, num_columns,
                   margin_levels, selected_positions, horizontal_bars,
                   coverage_positions, line_covered, remaining_positions,
                   missing_lines, outcome, error, amidakuji_data, result_mapping>>

Next ==
    \/ Validate
    \/ Draw
    \/ Grid
    \/ CoverageStart
    \/ CoverageSkip
    \/ CoverageStep
    \/ CoverageEnd
    \/ FillStart
    \/ FillSkip
    \/ FillStep
    \/ FillEnd
    \/ FinalCheck
    \/ Simulate
    \/ DrawEndLabels

Spec == Init /\ [][Next]_vars

\* ------------------------------------------ the simulator on its own

\* no two bars of one row in equal or adjacent columns
ValidBars(bars) ==
    \A j, k \in 1 .. Len(bars) :
        (j < k /\ bars[j].y_level = bars[k].y_level)
            => (bars[j].left_line_index - bars[k].left_line_index) \notin {-1, 0, 1}

SimCells(n) == {Bar(y, col) : y \in 0 .. (SimRows - 1), col \in 0 .. (n - 2)}

\* every valid diagram within the bounds, its bars in every list order
SimDiagrams ==
    UNION { { [vertical_lines |-> n, horizontal_bars_total |-> k, horizontal_bars |-> b] :
                b \in {s \in [1 .. k -> SimCells(n)] : ValidBars(s)} } :
            n \in 2 .. MaxLines, k \in 0 .. SimMaxBars }

\* a caller holds some valid diagram and has not simulated it yet
SimInit ==
    /\ amidakuji_data \in SimDiagrams
    /\ pc = "done"
    /\ outcome = "returned"
    /\ vertical_lines = amidakuji_data.vertical_lines
    /\ horizontal_bars = amidakuji_data.horizontal_bars
    /\ min_horizontal_bars = 0
    /\ max_horizontal_bars = 0
    /\ margin_ratio = DefaultMarginRatio
    /\ rng_calls = 0
    /\ total_bars = 0
    /\ height = 0
    /\ num_columns = 0
    /\ margin_levels = 0
    /\ selected_positions = {}
    /\ coverage_positions = {}
    /\ line_covered = <<>>
    /\ remaining_positions = {}
    /\ missing_lines = <<>>
    /\ error = ""
    /\ result_mapping = NoMapping
    /\ end_labels = NoLabels

SimNext ==
    \/ Simulate
    \/ DrawEndLabels

SimSpec == SimInit /\ [][SimNext]_vars

\* ---------------------------------------------------- shared vocabulary

Simulated == result_mapping # NoMapping

Lines == 0 .. (vertical_lines - 1)

\* line i is an end of bar b
Touches(b, i) == b.left_line_index = i \/ b.left_line_index + 1 = i

\* the lines of 0..n-1 that no bar of the list touches
UncoveredLines(bars, n) ==
    {i \in 0 .. (n - 1) : ~(\E k \in 1 .. Len(bars) : Touches(bars[k], i))}

Returned == pc = "done" /\ outcome = "returned"

NotConnectedRaised == pc = "done" /\ outcome = "raised" /\ error = MsgNotConnected

Range(s) == {s[k] : k \in 1 .. Len(s)}

BarCells(bars) == {<<bars[k].y_level, bars[k].left_line_index>> : k \in 1 .. Len(bars)}

\* the column reached at the bottom by walking down from column c at row y,
\* crossing every rung met
RECURSIVE TraceDown(_, _, _, _)
TraceDown(cells, y, ymax, c) ==
    IF y > ymax THEN c
    ELSE IF <<y, c>> \in cells THEN TraceDown(cells, y + 1, ymax, c + 1)
    ELSE IF <<y, c - 1>> \in cells THEN TraceDown(cells, y + 1, ymax, c - 1)
    ELSE TraceDown(cells, y + 1, ymax, c)

LastRow(cells) == IF cells = {} THEN -1 ELSE CHOOSE y \in {p[1] : p \in cells} :
                                              \A p \in cells : p[1] <= y

Destination(data, c) ==
    TraceDown(BarCells(data.horizontal_bars), 0, LastRow(BarCells(data.horizontal_bars)), c)

\* every list holding the same bars in another order
Reorderings(bars) ==
    LET k == Len(bars)
    IN  {[i \in 1 .. k |-> bars[p[i]]] :
            p \in {q \in [1 .. k -> 1 .. k] : \A i, j \in 1 .. k : i # j => q[i] # q[j]}}

\* the arguments lie outside the documented domain
OutOfDomain ==
    \/ vertical_lines < 2
    \/ min_horizontal_bars < 0
    \/ max_horizontal_bars < 0
    \/ min_horizontal_bars > max_horizontal_bars
    \/ margin_ratio.nan
    \/ margin_ratio.num < 0
    \/ 2 * margin_ratio.num >= MarginDen

InvalidParameterRaised ==
    pc = "done" /\ outcome = "raised" /\ error \in InvalidParameterMessages

\* ----------------------------------------------------------------- claims

\* C1: for every valid diagram, element i of the list _simulate_amidakuji
\* returns is the bottom column reached by tracing down from the top of line i
\* (index = start column, value = end column).
C1_MappingIsStartToEnd ==
    Simulated =>
        /\ DOMAIN result_mapping = Lines
        /\ \A i \in Lines : result_mapping[i] = Destination(amidakuji_data, i)

C3_NoAdjacentRungs ==
    /\ ValidBars(horizontal_bars)
    /\ ValidBars(amidakuji_data.horizontal_bars)

C3_Witness ==
    /\ Returned
    /\ \E j, k \in 1 .. Len(amidakuji_data.horizontal_bars) :
          /\ amidakuji_data.horizontal_bars[j].y_level = amidakuji_data.horizontal_bars[k].y_level
          /\ amidakuji_data.horizontal_bars[j].left_line_index + 2
                = amidakuji_data.horizontal_bars[k].left_line_index
    /\ \E pos \in CandidateCells(height, margin_levels, num_columns) :
          pos \notin selected_positions

\* C4: for valid inputs every returned diagram has
\* min <= horizontal_bars_total <= max, and horizontal_bars_total is the
\* length of the horizontal_bars list.
C4_TotalWithinRequestedRange ==
    Returned =>
        /\ min_horizontal_bars <= amidakuji_data.horizontal_bars_total
        /\ amidakuji_data.horizontal_bars_total <= max_horizontal_bars
        /\ amidakuji_data.horizontal_bars_total = Len(amidakuji_data.horizontal_bars)

\* C5: when the drawn total is 0 the call succeeds with vertical_lines = n,
\* horizontal_bars_total = 0 and an empty list, and the simulation of that
\* diagram is the identity mapping.
C5_ZeroTotalSucceeds ==
    (pc = "done" /\ rng_calls > 0 /\ ~margin_ratio.nan /\ total_bars = 0) =>
        /\ outcome = "returned"
        /\ amidakuji_data = [vertical_lines |-> vertical_lines,
                             horizontal_bars_total |-> 0,
                             horizontal_bars |-> <<>>]
        /\ Simulated => result_mapping = [i \in Lines |-> i]

\* C6: for valid inputs with min >= 1 and the default margin ratio the call
\* returns a diagram with vertical_lines = n on every run; it never raises.
C6_RequestedRungsNeverRaise ==
    (pc = "done" /\ ~OutOfDomain /\ min_horizontal_bars >= 1
        /\ margin_ratio = DefaultMarginRatio) =>
        /\ outcome = "returned"
        /\ amidakuji_data.vertical_lines = vertical_lines

\* C7: for every valid diagram with n lines the list _simulate_amidakuji
\* returns is a permutation of 0..n-1: length n, each value exactly once.
C7_MappingIsPermutation ==
    Simulated =>
        /\ DOMAIN result_mapping = Lines
        /\ \A v \in Lines : Cardinality({i \in Lines : result_mapping[i] = v}) = 1

C7_Witness ==
    /\ Simulated
    /\ vertical_lines = 4
    /\ Len(amidakuji_data.horizontal_bars) = SimMaxBars
    /\ \E i \in Lines : result_mapping[i] = i
    /\ \E i \in Lines : result_mapping[i] # i

\* C8: for every valid diagram, _simulate_amidakuji returns the same mapping
\* for every reordering of the horizontal_bars list.
C8_OrderOfListIrrelevant ==
    Simulated =>
        \A b \in Reorderings(amidakuji_data.horizontal_bars) :
            simulate_amidakuji([amidakuji_data EXCEPT !.horizontal_bars = b])
                = result_mapping

\* the list is not in row order and two of its bars share a row
C8_Witness ==
    /\ Simulated
    /\ Len(amidakuji_data.horizontal_bars) = 3
    /\ amidakuji_data.horizontal_bars[1].y_level > amidakuji_data.horizontal_bars[2].y_level
    /\ amidakuji_data.horizontal_bars[1].y_level = amidakuji_data.horizontal_bars[3].y_level
    /\ result_mapping # [i \in Lines |-> i]

\* C9: the call fails with the invalid-parameter error if and only if the
\* arguments are out of domain (n < 2, a negative bound, min > max, or
\* margin_ratio outside [0, 0.5)), and it does so before the total is drawn
\* and before any rung is placed.
C9_InvalidParameterIffOutOfDomain ==
    /\ pc = "done" => (InvalidParameterRaised <=> OutOfDomain)
    /\ (pc # "validate" /\ OutOfDomain) => InvalidParameterRaised
    /\ InvalidParameterRaised => (rng_calls = 0 /\ horizontal_bars = <<>>)

\* The part of C9 the code does satisfy: for a margin_ratio that is a number,
\* the invalid-parameter error is raised exactly for out-of-domain arguments,
\* before any draw and before any rung is placed.
InvalidParameterIffOutOfDomainForNumbers ==
    ~margin_ratio.nan =>
        /\ pc # "validate" => (InvalidParameterRaised <=> OutOfDomain)
        /\ InvalidParameterRaised => (rng_calls = 0 /\ horizontal_bars = <<>>)

\* C10: when the call fails because a line is not covered, the lines the error
\* lists are exactly the line indices i in 0..n-1 that no placed rung touches.
C10_ErrorListsUncoveredIndices ==
    NotConnectedRaised =>
        Range(missing_lines) = UncoveredLines(horizontal_bars, vertical_lines)

\* C10 as amended: the error lists, in increasing order and once each, the
\* 1-based numbers i + 1 of the lines i that no placed rung touches.
C10_ErrorListsUncoveredNumbers ==
    NotConnectedRaised =>
        /\ Range(missing_lines) =
              {i + 1 : i \in UncoveredLines(horizontal_bars, vertical_lines)}
        /\ \A j, k \in 1 .. Len(missing_lines) : j < k => missing_lines[j] < missing_lines[k]
        /\ missing_lines # <<>>

\* some lines are covered and some are not
C10_Witness ==
    /\ NotConnectedRaised
    /\ vertical_lines = 4
    /\ missing_lines = <<1, 4>>

\* the arguments passed validation, the total is drawn and the grid is built
GridBuilt ==
    /\ pc \notin {"validate", "draw", "grid"}
    /\ rng_calls > 0
    /\ ~margin_ratio.nan

\* rows m .. height-m-1 crossed with columns 0 .. n-2, from the state
GridCells ==
    {<<y, col>> : y \in margin_levels .. (height - margin_levels - 1),
                  col \in 0 .. (vertical_lines - 2)}

\* C11: for every drawn total t >= 0 the grid has height max(2*t, 6), and the
\* candidate cells of both passes are exactly rows m .. height-m-1 (with
\* m = max(1, floor(height * margin_ratio))) crossed with columns 0 .. n-2.
C11_HeightIsAtLeastSix ==
    GridBuilt =>
        /\ height = Max2(2 * total_bars, 6)
        /\ margin_levels = Max2(1, (height * margin_ratio.num) \div MarginDen)
        /\ (pc = "coverage" /\ horizontal_bars = <<>>) => coverage_positions = GridCells

\* C11 as amended: the grid has height 2*t for t >= 1 and 6 for t = 0, with
\* m = max(1, floor(height * margin_ratio)); the coverage pass starts from
\* exactly the cells of rows m .. height-m-1 and columns 0 .. n-2, and the fill
\* pass from those of them that are not selected yet.
C11_GridAsBuilt ==
    [][ /\ (pc = "grid" /\ pc' = "coverage_if") =>
             /\ height' = (IF total_bars > 0 THEN 2 * total_bars ELSE 6)
             /\ margin_levels' = Max2(1, (height' * margin_ratio.num) \div MarginDen)
        /\ (pc = "coverage_if" /\ pc' = "coverage") =>
             coverage_positions' = GridCells'
        /\ (pc = "fill_if" /\ pc' = "fill") =>
             remaining_positions' = GridCells' \ selected_positions'
      ]_vars

\* the fill pass has just started on a grid with a two-row margin, after the
\* coverage pass placed rungs
C11_Witness ==
    /\ pc = "fill"
    /\ margin_levels = 2
    /\ selected_positions # {}
    /\ remaining_positions = GridCells \ selected_positions
    /\ remaining_positions # {}

\* the drawn total is at least n-1 and at least 2
EnoughBars == GridBuilt /\ total_bars >= vertical_lines - 1 /\ total_bars >= 2

\* C12: whenever the drawn total t has t >= n-1 and t >= 2 the call succeeds
\* for every shuffle and every valid margin_ratio: the coverage pass places at
\* most one rung per column, runs out neither of rung budget nor of candidate
\* cells before every line is covered, and the final check never raises.
C12_EnoughBarsAlwaysSucceed ==
    EnoughBars =>
        /\ pc # "fill_if" \/ Len(horizontal_bars) > 0
        /\ pc \in {"coverage", "fill_if"} =>
              \A j, k \in 1 .. Len(horizontal_bars) :
                  j < k => horizontal_bars[j].left_line_index
                              # horizontal_bars[k].left_line_index
        /\ pc = "coverage" =>
              /\ Len(horizontal_bars) < total_bars
              /\ coverage_positions # {}
        /\ pc \in {"fill_if", "fill", "final", "done"} =>
              /\ All(line_covered)
              /\ UncoveredLines(horizontal_bars, vertical_lines) = {}
        /\ pc = "done" => outcome = "returned"

\* the tightest grid within the bounds: two rows, three columns, three rungs
C12_Witness ==
    /\ EnoughBars
    /\ Returned
    /\ vertical_lines = 4
    /\ total_bars = 3
    /\ margin_levels = 2
    /\ amidakuji_data.horizontal_bars_total = 3

====
